---------------------------- MODULE Spec2Model ----------------------------
(***************************************************************************)
(* Model of build_script.py (class TextbookBuilder): the chapter catalog   *)
(* built by parse_chapters, the chapter-mention resolver                   *)
(* convert_chapter_links (book scheme), the link rewriting and heading     *)
(* anchors of generate_pdf (document scheme) and the stage loop of build.  *)
(*                                                                         *)
(* Texts are sequences of characters, one string per character.  The       *)
(* Cyrillic letters of the word the regular expressions look for are       *)
(* written with a trailing tilde:                                          *)
(*     "G~" U+0413   "g~" U+0433   "l~" U+043B   "a~" U+0430               *)
(*     "v~" U+0432   "e~" U+0435   "u~" U+0443   "y~" U+044B               *)
(* and their capitals, where upper() or title() produces them, likewise:   *)
(*     "L~" U+041B   "A~" U+0410   "V~" U+0412   "E~" U+0415               *)
(*     "U~" U+0423   "Y~" U+042B                                           *)
(* Every other character stands for itself.                                *)
(***************************************************************************)
EXTENDS Integers, Sequences, FiniteSets, TLC

VARIABLES
    chapters,   \* self.chapters: the list of chapter_info dicts
    source,     \* the text of a chapter file, as read from disk
    content,    \* the text after the last rewriting pass
    scheme,     \* which pass produced content: "none", "book", "pdf"
    lines,      \* the lines of a chapter file whose headings are numbered
    toc_subs,   \* the sub-entries the PDF table of contents got for it
    body_html,  \* the HTML of the chapter body after add_h2_id
    pdf_pass,   \* whether generate_pdf has gone over the chapter
    spec_md,    \* whether spec.md exists in the directory main() starts in
    dir_exists, \* whether the chapters directory exists
    dir_files,  \* the files of the chapters directory
    book_exists,\* whether the output directory book/ exists
    book_files, \* the files of book/
    written,    \* the artifacts written at the repository root
    toc_structure, \* self.toc_structure, as the sequence of its items
    pc,         \* where the run is: "main", a stage of build(), "exit"
    build_result,  \* what build() returned: "none", "True", "False"
    exit_status,   \* the exit status of the process, -1 while it runs
    log         \* what was printed, one event per message

resolver_vars == <<source, content, scheme>>
heading_vars  == <<lines, toc_subs, body_html, pdf_pass>>
build_vars    == <<spec_md, dir_exists, dir_files, book_exists, book_files, written,
                   toc_structure, pc, build_result, exit_status, log>>

vars == <<chapters, source, content, scheme, lines, toc_subs, body_html, pdf_pass,
          spec_md, dir_exists, dir_files, book_exists, book_files, written,
          toc_structure, pc, build_result, exit_status, log>>

-----------------------------------------------------------------------------
(* Characters and small string helpers                                     *)

Digits == {"0", "1", "2", "3", "4", "5", "6", "7", "8", "9"}

\* str[i:i+len(lit)] == lit
StartsAt(s, i, lit) ==
    /\ i >= 1
    /\ i + Len(lit) - 1 <= Len(s)
    /\ \A k \in 1..Len(lit) : s[i + k - 1] = lit[k]

\* the character at position i is c (false past the end of the text)
CharIs(s, i, c) == i >= 1 /\ i <= Len(s) /\ s[i] = c

\* lit occurs somewhere in s
Contains(s, lit) == \E i \in 1..(Len(s) - Len(lit) + 1) : StartsAt(s, i, lit)

\* length of the maximal run of digits starting at i: what a greedy \d+ takes
RECURSIVE DigitRun(_, _)
DigitRun(s, i) ==
    IF i <= Len(s) /\ s[i] \in Digits THEN 1 + DigitRun(s, i + 1) ELSE 0

\* str.zfill(width) on a string of digits
RECURSIVE zfill(_, _)
zfill(d, width) == IF Len(d) >= width THEN d ELSE zfill(<<"0">> \o d, width)

Glava == <<"G~", "l~", "a~", "v~", "a~">>

\* (\d+)\.(\d+) at position i, both runs maximal; n2 is the length of the
\* second run, which a following lookahead may make the engine shorten
NumPair(s, i) ==
    LET n1 == DigitRun(s, i)
        n2 == DigitRun(s, i + n1 + 1)
    IN  [ok   |-> n1 >= 1 /\ CharIs(s, i + n1, ".") /\ n2 >= 1,
         sec  |-> SubSeq(s, i, i + n1 - 1),
         from |-> i + n1 + 1,
         n2   |-> n2]

NoMatch == [ok |-> FALSE]


-----------------------------------------------------------------------------
(* parse_chapters: the catalog                                             *)
(*                                                                         *)
(* A file of the chapters directory is a record                            *)
(*   [name, readable, first_line, body]: its name, whether open() and      *)
(* read succeed, its first line (without the newline) and the rest of it.  *)

\* The characters of file names, in code point order (what sorted() uses)
CharOrder ==
    <<"\n", " ", ".", "0", "1", "2", "3", "4", "5", "6", "7", "8", "9",
      "A", "B", "C", "D", "E", "F", "G", "H", "I", "J", "K", "L", "M",
      "N", "O", "P", "Q", "R", "S", "T", "U", "V", "W", "X", "Y", "Z", "_",
      "a", "b", "c", "d", "e", "f", "g", "h", "i", "j", "k", "l", "m",
      "n", "o", "p", "q", "r", "s", "t", "u", "v", "w", "x", "y", "z",
      "A~", "V~", "G~", "E~", "L~", "U~", "Y~",
      "a~", "v~", "g~", "e~", "l~", "u~", "y~">>

Ord(c) == CHOOSE k \in 1..Len(CharOrder) : CharOrder[k] = c

\* a < b for two strings, as Python compares them
RECURSIVE StrLess(_, _)
StrLess(a, b) ==
    IF b = <<>> THEN FALSE
    ELSE IF a = <<>> THEN TRUE
    ELSE IF a[1] = b[1] THEN StrLess(Tail(a), Tail(b))
    ELSE Ord(a[1]) < Ord(b[1])

\* sorted(...) of a set of files, by name
RECURSIVE SortedFiles(_)
SortedFiles(fs) ==
    IF fs = {} THEN <<>>
    ELSE LET f == CHOOSE x \in fs : \A y \in fs : y = x \/ StrLess(x.name, y.name)
         IN  <<f>> \o SortedFiles(fs \ {f})

\* self.chapters_dir.glob("*.md"): the files whose name ends in ".md"
GlobMd(dir) ==
    {f \in dir : StartsAt(f.name, Len(f.name) - 2, <<".", "m", "d">>)}

\* re.match(r'(\d{2})_(\d{2})_(.+)\.md', name): the greedy (.+) runs to the
\* last ".md" it can reach without crossing a newline (the dot matches
\* every character but "\n"); nothing anchors the end of the name
NameMatch(name) ==
    LET ends == {q \in 8..Len(name) :
                    /\ StartsAt(name, q, <<".", "m", "d">>)
                    /\ \A k \in 7..(q - 1) : name[k] # "\n"}
    IN  IF /\ Len(name) >= 6
           /\ \A k \in {1, 2, 4, 5} : name[k] \in Digits
           /\ name[3] = "_" /\ name[6] = "_"
           /\ ends # {}
        THEN LET q == CHOOSE x \in ends : \A y \in ends : y <= x
             IN  [ok |-> TRUE, section_num |-> SubSeq(name, 1, 2),
                  chapter_num |-> SubSeq(name, 4, 5),
                  slug |-> SubSeq(name, 7, q - 1)]
        ELSE NoMatch

\* the cased letters of the alphabet of the texts: the Latin ones and the
\* Cyrillic ones of the word, each lower-case letter with its capital
Lower == <<"a", "b", "c", "d", "e", "f", "g", "h", "i", "j", "k", "l", "m",
           "n", "o", "p", "q", "r", "s", "t", "u", "v", "w", "x", "y", "z",
           "g~", "l~", "a~", "v~", "e~", "u~", "y~">>
Upper == <<"A", "B", "C", "D", "E", "F", "G", "H", "I", "J", "K", "L", "M",
           "N", "O", "P", "Q", "R", "S", "T", "U", "V", "W", "X", "Y", "Z",
           "G~", "L~", "A~", "V~", "E~", "U~", "Y~">>

IsLower(c) == \E k \in 1..Len(Lower) : Lower[k] = c
IsUpper(c) == \E k \in 1..Len(Upper) : Upper[k] = c
ToUpper(c) == IF IsLower(c) THEN Upper[CHOOSE k \in 1..Len(Lower) : Lower[k] = c] ELSE c
ToLower(c) == IF IsUpper(c) THEN Lower[CHOOSE k \in 1..Len(Upper) : Upper[k] = c] ELSE c

\* str.title(): a cased character is upper-cased after an uncased one and
\* lower-cased after a cased one
RECURSIVE TitleCase(_, _)
TitleCase(s, afterCased) ==
    IF s = <<>> THEN <<>>
    ELSE LET c     == s[1]
             cased == IsLower(c) \/ IsUpper(c)
         IN  <<IF afterCased THEN ToLower(c) ELSE ToUpper(c)>>
                 \o TitleCase(Tail(s), cased)

\* chapter_slug.replace('_', ' ').title()
SlugTitle(slug) ==
    TitleCase([k \in 1..Len(slug) |-> IF slug[k] = "_" THEN " " ELSE slug[k]],
              FALSE)

\* what str.strip() removes and \s matches, among the characters a
\* string of this module can hold: space, newline, tab, form feed,
\* carriage return, and (written raw) the vertical tab U+000B and the
\* separators U+001C to U+001F
Whitespace == {" ", "\n", "\t", "\f", "\r", "", "", "", "", ""}

\* str.strip()
RECURSIVE LStrip(_)
LStrip(s) == IF s # <<>> /\ s[1] \in Whitespace THEN LStrip(Tail(s)) ELSE s
RECURSIVE RStrip(_)
RStrip(s) ==
    IF s # <<>> /\ s[Len(s)] \in Whitespace
    THEN RStrip(SubSeq(s, 1, Len(s) - 1)) ELSE s
Strip(s) == RStrip(LStrip(s))

\* length of the run of [:\s] characters starting at i
RECURSIVE ColonSpaceRun(_, _)
ColonSpaceRun(s, i) ==
    IF i <= Len(s) /\ s[i] \in (Whitespace \cup {":"})
    THEN 1 + ColonSpaceRun(s, i + 1) ELSE 0

\* re.sub(r'^Glava \d+\.\d+[:\s]*', '', title)
StripChapterPrefix(title) ==
    LET np == NumPair(title, 7)
        e  == np.from + np.n2
    IN  IF StartsAt(title, 1, Glava \o <<" ">>) /\ np.ok
        THEN SubSeq(title, e + ColonSpaceRun(title, e), Len(title))
        ELSE title

\* the title of a chapter: from the first line when it is a heading, from
\* the slug when it is not or when the file cannot be read
ChapterTitle(f, slug) ==
    IF ~f.readable THEN SlugTitle(slug)
    ELSE LET first_line == Strip(f.first_line)
         IN  IF StartsAt(first_line, 1, <<"#", " ">>)
             THEN StripChapterPrefix(Strip(SubSeq(first_line, 3, Len(first_line))))
             ELSE SlugTitle(slug)

\* str(int(d)) for a string of digits
RECURSIVE IntStr(_)
IntStr(d) == IF Len(d) > 1 /\ d[1] = "0" THEN IntStr(Tail(d)) ELSE d

\* the chapter_info dict of a matching file
chapter_info(f, m) ==
    [section_num |-> m.section_num,
     chapter_num |-> m.chapter_num,
     full_num    |-> IntStr(m.section_num) \o <<".">> \o IntStr(m.chapter_num),
     slug        |-> m.slug,
     title       |-> ChapterTitle(f, m.slug),
     filename    |-> f.name,
     path        |-> f.name]

\* The nine names of the sections table; any other section is named
\* "Razdel N" with N = int(section_num)
KnownSections ==
    {<<"0", "1">>, <<"0", "2">>, <<"0", "3">>, <<"0", "4">>, <<"0", "5">>,
     <<"0", "6">>, <<"0", "7">>, <<"0", "8">>, <<"0", "9">>}

\* sections.get(section_num, f"Razdel {int(section_num)}")
SectionName(section_num) ==
    IF section_num \in KnownSections
    THEN [table |-> TRUE, key |-> section_num]
    ELSE [table |-> FALSE, key |-> IntStr(section_num)]

\* whether a file of the sorted listing is kept: file names that do not
\* match are skipped
KeepFile(f) == NameMatch(f.name).ok

\* self.chapters after the loop over the sorted listing
RECURSIVE ChaptersOf(_)
ChaptersOf(files) ==
    IF files = <<>> THEN <<>>
    ELSE LET f == files[1]
         IN  (IF KeepFile(f) THEN <<chapter_info(f, NameMatch(f.name))>> ELSE <<>>)
                 \o ChaptersOf(Tail(files))

\* self.toc_structure (an OrderedDict) as the sequence of its items: a
\* chapter joins the entry of its section, a new section is added last
RECURSIVE TocOf(_, _)
TocOf(chs, toc) ==
    IF chs = <<>> THEN toc
    ELSE LET c    == chs[1]
             at   == {k \in 1..Len(toc) : toc[k].section_num = c.section_num}
         IN  IF at = {}
             THEN TocOf(Tail(chs),
                        Append(toc, [section_num |-> c.section_num,
                                     name |-> SectionName(c.section_num),
                                     chapters |-> <<c>>]))
             ELSE LET k == CHOOSE x \in at : TRUE
                  IN  TocOf(Tail(chs),
                            [toc EXCEPT ![k].chapters = Append(@, c)])

\* parse_chapters on an existing directory: the chapter list
parse_chapters(dir) == ChaptersOf(SortedFiles(GlobMd(dir)))

-----------------------------------------------------------------------------
(* convert_chapter_links: the book-scheme resolver                         *)

\* find_target_chapter: index of the first chapter of the list with the
\* zero-padded key, 0 for None
find_target_chapter(chs, section, chapter_num) ==
    LET hits == {k \in 1..Len(chs) :
                    /\ chs[k].section_num = zfill(section, 2)
                    /\ chs[k].chapter_num = zfill(chapter_num, 2)}
    IN  IF hits = {} THEN 0 ELSE CHOOSE k \in hits : \A j \in hits : k <= j

\* f"{target['section_num']}_{target['chapter_num']}_{target['slug']}.md"
link_url(target) ==
    target.section_num \o <<"_">> \o target.chapter_num \o <<"_">>
        \o target.slug \o <<".", "m", "d">>

\* (?!\]) after **Glava X.Y**: the character after the match is not "]"
BoldLookahead(s, e) == ~CharIs(s, e, "]")

\* rule 1, r'\*\*Glava (\d+)\.(\d+)\*\*(?!\])' tried at position i
BoldMatch(s, i) ==
    LET lit == <<"*", "*">> \o Glava \o <<" ">>
        np  == NumPair(s, i + Len(lit))
        e   == np.from + np.n2
    IN  IF /\ StartsAt(s, i, lit)
           /\ np.ok
           /\ StartsAt(s, e, <<"*", "*">>)
           /\ BoldLookahead(s, e + 2)
        THEN [ok |-> TRUE, next |-> e + 2, word |-> Glava,
              sec |-> np.sec, ch |-> SubSeq(s, np.from, e - 1)]
        ELSE NoMatch

\* replace_bold_chapter
replace_bold_chapter(chs, s, i, m) ==
    LET t == find_target_chapter(chs, m.sec, m.ch)
    IN  IF t = 0 THEN SubSeq(s, i, m.next - 1)
        ELSE <<"[", "*", "*">> \o Glava \o <<" ">> \o m.sec \o <<".">> \o m.ch
                 \o <<"*", "*", "]", "(">> \o link_url(chs[t]) \o <<")">>

\* rule 2 without its lookahead
BracketNoLookahead(s, e) == TRUE

\* (?!\() after [Glava X.Y]: the character after the match is not "("
BracketLookahead(s, e) == ~CharIs(s, e, "(")

\* rule 2, r'\[Glava (\d+)\.(\d+)\](?!\()' tried at position i
BracketMatch(s, i) ==
    LET lit == <<"[">> \o Glava \o <<" ">>
        np  == NumPair(s, i + Len(lit))
        e   == np.from + np.n2
    IN  IF /\ StartsAt(s, i, lit)
           /\ np.ok
           /\ CharIs(s, e, "]")
           /\ BracketLookahead(s, e + 1)
        THEN [ok |-> TRUE, next |-> e + 1, word |-> Glava,
              sec |-> np.sec, ch |-> SubSeq(s, np.from, e - 1)]
        ELSE NoMatch

\* replace_bracket_chapter
replace_bracket_chapter(chs, s, i, m) ==
    LET t == find_target_chapter(chs, m.sec, m.ch)
    IN  IF t = 0 THEN SubSeq(s, i, m.next - 1)
        ELSE <<"[">> \o Glava \o <<" ">> \o m.sec \o <<".">> \o m.ch
                 \o <<"]", "(">> \o link_url(chs[t]) \o <<")">>

\* the word of rule 3 without its case forms: (Glava) alone
CaseWordExact(s, i) == StartsAt(s, i, Glava)

\* ([Gg]lav[aeuy]) at position i
CaseWord(s, i) ==
    /\ i + 4 <= Len(s)
    /\ s[i] \in {"G~", "g~"}
    /\ StartsAt(s, i + 1, <<"l~", "a~", "v~">>)
    /\ s[i + 4] \in {"a~", "e~", "u~", "y~"}

\* the lookbehind without its "*" alternative, (?<!\[)
PlainLookbehindBracketOnly(s, i) == ~CharIs(s, i - 1, "[")

\* (?<!\[|\*) before the word: the character before it is neither "[" nor "*"
PlainLookbehind(s, i) == ~CharIs(s, i - 1, "[") /\ ~CharIs(s, i - 1, "*")

\* How many digits the second (\d+) of rule 3 keeps under (?!\]): the
\* greedy run, or, when "]" follows the run, the run less its last digit
\* (what follows is then a digit, and the lookahead passes); 0 when the
\* engine has nothing left to give back.
PlainChapterDigits(s, from, n2) ==
    IF CharIs(s, from + n2, "]") THEN n2 - 1 ELSE n2

\* rule 3, r'(?<!\[|\*)([Gg]lav[aeuy]) (\d+)\.(\d+)(?!\])' tried at i
PlainMatch(s, i) ==
    LET np == NumPair(s, i + 6)
        k  == PlainChapterDigits(s, np.from, np.n2)
    IN  IF /\ PlainLookbehind(s, i)
           /\ CaseWord(s, i)
           /\ CharIs(s, i + 5, " ")
           /\ np.ok
           /\ k >= 1
        THEN [ok |-> TRUE, next |-> np.from + k, word |-> SubSeq(s, i, i + 4),
              sec |-> np.sec, ch |-> SubSeq(s, np.from, np.from + k - 1)]
        ELSE NoMatch

\* replace_plain_chapter
replace_plain_chapter(chs, s, i, m) ==
    LET t == find_target_chapter(chs, m.sec, m.ch)
    IN  IF t = 0 THEN SubSeq(s, i, m.next - 1)
        ELSE <<"[">> \o m.word \o <<" ">> \o m.sec \o <<".">> \o m.ch
                 \o <<"]", "(">> \o link_url(chs[t]) \o <<")">>

RuleMatch(rule, s, i) ==
    CASE rule = 1 -> BoldMatch(s, i)
      [] rule = 2 -> BracketMatch(s, i)
      [] rule = 3 -> PlainMatch(s, i)

RuleReplace(rule, chs, s, i, m) ==
    CASE rule = 1 -> replace_bold_chapter(chs, s, i, m)
      [] rule = 2 -> replace_bracket_chapter(chs, s, i, m)
      [] rule = 3 -> replace_plain_chapter(chs, s, i, m)

\* re.sub(pattern, repl, s) from position i on: the text up to the
\* leftmost match is copied, the match is replaced and the scan goes on
\* after it, on the original text
RECURSIVE ReSub(_, _, _, _)
ReSub(rule, chs, s, i) ==
    LET hits == {j \in i..Len(s) : RuleMatch(rule, s, j).ok}
    IN  IF hits = {} THEN SubSeq(s, i, Len(s))
        ELSE LET j == CHOOSE x \in hits : \A y \in hits : x <= y
                 m == RuleMatch(rule, s, j)
             IN  SubSeq(s, i, j - 1) \o RuleReplace(rule, chs, s, j, m)
                     \o ReSub(rule, chs, s, m.next)

Rule1(chs, s) == ReSub(1, chs, s, 1)
Rule2(chs, s) == ReSub(2, chs, s, 1)
Rule3(chs, s) == ReSub(3, chs, s, 1)

\* convert_chapter_links(content, current_chapter): rules 1, 2, 3 in turn
convert_chapter_links(chs, s) == Rule3(chs, Rule2(chs, Rule1(chs, s)))

-----------------------------------------------------------------------------
(* generate_pdf: the rewriting of already linked mentions                  *)

\* position of the first ")" at or after i, 0 when there is none
RECURSIVE FirstClose(_, _)
FirstClose(s, i) ==
    IF i > Len(s) THEN 0
    ELSE IF s[i] = ")" THEN i ELSE FirstClose(s, i + 1)

\* \([^)]+\) at position i: "(", at least one character that is not ")",
\* then ")"; the position after it, 0 when it does not match
TargetEnd(s, i) ==
    LET c == FirstClose(s, i + 1)
    IN  IF CharIs(s, i, "(") /\ c > i + 1 THEN c + 1 ELSE 0

\* f"chapter_{section.zfill(2)}_{chapter_num.zfill(2)}"
chapter_anchor(section, chapter_num) ==
    <<"c", "h", "a", "p", "t", "e", "r", "_">> \o zfill(section, 2)
        \o <<"_">> \o zfill(chapter_num, 2)

AHref(id) == <<"<", "a", " ", "h", "r", "e", "f", "=", "\"", "#">> \o id \o <<"\"", ">">>
AClose == <<"<", "/", "a", ">">>

\* r'\[Glava (\d+)\.(\d+)\]\([^)]+\)' tried at position i
PdfLinkMatch(s, i) ==
    LET lit == <<"[">> \o Glava \o <<" ">>
        np  == NumPair(s, i + Len(lit))
        e   == np.from + np.n2
    IN  IF /\ StartsAt(s, i, lit)
           /\ np.ok
           /\ CharIs(s, e, "]")
           /\ TargetEnd(s, e + 1) > 0
        THEN [ok |-> TRUE, next |-> TargetEnd(s, e + 1),
              sec |-> np.sec, ch |-> SubSeq(s, np.from, e - 1)]
        ELSE NoMatch

\* convert_pdf_links(match)
convert_pdf_links(m) ==
    AHref(chapter_anchor(m.sec, m.ch))
        \o Glava \o <<" ">> \o m.sec \o <<".">> \o m.ch \o AClose

\* r'\[\*\*Glava (\d+)\.(\d+)\*\*\]\([^)]+\)' tried at position i
PdfBoldLinkMatch(s, i) ==
    LET lit == <<"[", "*", "*">> \o Glava \o <<" ">>
        np  == NumPair(s, i + Len(lit))
        e   == np.from + np.n2
    IN  IF /\ StartsAt(s, i, lit)
           /\ np.ok
           /\ StartsAt(s, e, <<"*", "*", "]">>)
           /\ TargetEnd(s, e + 3) > 0
        THEN [ok |-> TRUE, next |-> TargetEnd(s, e + 3),
              sec |-> np.sec, ch |-> SubSeq(s, np.from, e - 1)]
        ELSE NoMatch

\* the lambda of the second re.sub
convert_pdf_bold_links(m) ==
    AHref(chapter_anchor(m.sec, m.ch))
        \o <<"<", "s", "t", "r", "o", "n", "g", ">">>
        \o Glava \o <<" ">> \o m.sec \o <<".">> \o m.ch
        \o <<"<", "/", "s", "t", "r", "o", "n", "g", ">">> \o AClose

\* the pattern of the first or of the second re.sub tried at position i
PdfMatch(bold, s, i) == IF bold THEN PdfBoldLinkMatch(s, i) ELSE PdfLinkMatch(s, i)

RECURSIVE PdfSub(_, _, _)
PdfSub(bold, s, i) ==
    LET hits == {j \in i..Len(s) : PdfMatch(bold, s, j).ok}
    IN  IF hits = {} THEN SubSeq(s, i, Len(s))
        ELSE LET j == CHOOSE x \in hits : \A y \in hits : x <= y
                 m == PdfMatch(bold, s, j)
             IN  SubSeq(s, i, j - 1)
                     \o (IF bold THEN convert_pdf_bold_links(m) ELSE convert_pdf_links(m))
                     \o PdfSub(bold, s, m.next)

\* the chapter text generate_pdf hands to the markdown converter: the two
\* re.sub calls on the file as read; convert_chapter_links is not called
pdf_content(s) == PdfSub(TRUE, PdfSub(FALSE, s, 1), 1)

-----------------------------------------------------------------------------
(* generate_pdf: the sub-entries of the table of contents and the ids of   *)
(* the headings in the chapter body                                        *)
(*                                                                         *)
(* Heading titles are Cyrillic in the book; the model writes them in       *)
(* Latin letters, one Latin letter per Cyrillic one, and lower() acts on   *)
(* those letters.                                                          *)

\* str(n) for a natural number
RECURSIVE Str(_)
Str(n) ==
    LET d == <<"0", "1", "2", "3", "4", "5", "6", "7", "8", "9">>
    IN  IF n < 10 THEN <<d[n + 1]>> ELSE Str(n \div 10) \o <<d[(n % 10) + 1]>>

\* "\n".join(lines)
RECURSIVE JoinLines(_)
JoinLines(ls) ==
    IF ls = <<>> THEN <<>>
    ELSE IF Len(ls) = 1 THEN ls[1]
    ELSE ls[1] \o <<"\n">> \o JoinLines(Tail(ls))

\* text.split("\n")
SplitLines(t) ==
    LET nl     == {i \in 1..Len(t) : t[i] = "\n"}
        cut(k) == IF k = 0 THEN 0
                  ELSE IF k > Cardinality(nl) THEN Len(t) + 1
                  ELSE CHOOSE i \in nl : Cardinality({j \in nl : j < i}) = k - 1
    IN  [k \in 1..(Cardinality(nl) + 1) |-> SubSeq(t, cut(k - 1) + 1, cut(k) - 1)]

\* the service headings the table of contents skips (introduction, key
\* terms, review questions, summary, links with other topics / chapters)
ServiceHeadings ==
    { <<"v", "v", "e", "d", "e", "n", "i", "e">>,
      <<"k", "l", "u", "c", "h", "e", "v", "y", "e", " ", "t", "e", "r", "m", "i", "n", "y">>,
      <<"k", "o", "n", "t", "r", "o", "l", "n", "y", "e", " ", "v", "o", "p", "r", "o", "s", "y">>,
      <<"r", "e", "z", "u", "m", "e">>,
      <<"s", "v", "a", "z", " ", "s", " ", "d", "r", "u", "g", "i", "m", "i", " ", "t", "e", "m", "a", "m", "i">>,
      <<"s", "v", "a", "z", " ", "s", " ", "d", "r", "u", "g", "i", "m", "i", " ", "g", "l", "a", "v", "a", "m", "i">> }

\* str.lower()
LowerStr(t) == [k \in 1..Len(t) |-> ToLower(t[k])]

\* r'^## (.+)$' with re.MULTILINE on one line of the file
IsH2Line(l) == StartsAt(l, 1, <<"#", "#", " ">>) /\ Len(l) >= 4

\* match.group(1).strip()
H2Title(l) == Strip(SubSeq(l, 4, Len(l)))

\* the lines re.finditer(h2_pattern, chapter_content, re.MULTILINE) finds
H2Matches(ls) == SelectSeq(ls, IsH2Line)

\* f"chapter_{chapter['section_num']}_{chapter['chapter_num']}"
chapter_id(c) ==
    <<"c", "h", "a", "p", "t", "e", "r", "_">> \o c.section_num \o <<"_">> \o c.chapter_num

\* f"{chapter_id}_h2_{i}"
h2_id(c, i) == chapter_id(c) \o <<"_", "h", "2", "_">> \o Str(i)

\* the TOC loop over enumerate(h2_matches): a service heading is skipped
\* (continue) after enumerate has counted it
RECURSIVE TocSubEntries(_, _, _)
TocSubEntries(c, ms, i) ==
    IF ms = <<>> THEN <<>>
    ELSE LET h2_title == H2Title(ms[1])
         IN  (IF LowerStr(h2_title) \in ServiceHeadings THEN <<>>
              ELSE <<[href |-> h2_id(c, i), title |-> h2_title]>>)
                 \o TocSubEntries(c, Tail(ms), i + 1)

\* a code fence, written with tildes (the fenced-code syntax accepts both
\* tildes and backquotes)
Fence == <<"~", "~", "~">>

\* the id the toc extension gives the n-th heading of a document whose
\* titles have no ASCII letters: the slug is empty and unique() makes it _n
TocExtensionId(n) == <<"_">> \o Str(n)

\* a line of the markdown source that opens with the block-level tag
\* <h2>: raw HTML, which the converter hands on as it is written
RawHtmlLine(l) == StartsAt(l, 1, <<"<", "h", "2", ">">>)

\* md.convert(content) with extensions extra, codehilite, tables, toc and
\* attr_list, block by block: a fence that is closed later makes a code
\* block of the lines up to its close; outside code a "## " line is a
\* heading, which the toc extension renders with an id attribute; a raw
\* HTML line is passed through; any other line is a paragraph, in which
\* HTML tags stay as written; n counts the headings so far
RECURSIVE MarkdownBlocks(_, _)
MarkdownBlocks(ls, n) ==
    IF ls = <<>> THEN <<>>
    ELSE LET l      == ls[1]
             closes == {j \in 2..Len(ls) : ls[j] = Fence}
         IN  IF l = Fence /\ closes # {}
             THEN LET j == CHOOSE x \in closes : \A y \in closes : x <= y
                  IN  <<[tag |-> "pre", id |-> <<>>, text |-> JoinLines(SubSeq(ls, 2, j - 1))]>>
                          \o MarkdownBlocks(SubSeq(ls, j + 1, Len(ls)), n)
             ELSE IF IsH2Line(l)
             THEN <<[tag |-> "h2", id |-> TocExtensionId(n + 1), text |-> H2Title(l)]>>
                      \o MarkdownBlocks(Tail(ls), n + 1)
             ELSE IF RawHtmlLine(l)
             THEN <<[tag |-> "raw", id |-> <<>>, text |-> l]>>
                      \o MarkdownBlocks(Tail(ls), n)
             ELSE <<[tag |-> "p", id |-> <<>>, text |-> l]>>
                      \o MarkdownBlocks(Tail(ls), n)

\* the text of a code block as the converter writes it: & < > and the
\* double quote become entities
RECURSIVE EscapeHtml(_)
EscapeHtml(t) ==
    IF t = <<>> THEN <<>>
    ELSE (CASE t[1] = "&"  -> <<"&", "a", "m", "p", ";">>
            [] t[1] = "<"  -> <<"&", "l", "t", ";">>
            [] t[1] = ">"  -> <<"&", "g", "t", ";">>
            [] t[1] = "\"" -> <<"&", "q", "u", "o", "t", ";">>
            [] OTHER       -> <<t[1]>>) \o EscapeHtml(Tail(t))

H2Open  == <<"<", "h", "2", ">">>
H2Close == <<"<", "/", "h", "2", ">">>

\* the HTML of one block
BlockHtml(b) ==
    CASE b.tag = "h2"  -> (IF b.id = <<>> THEN H2Open
                           ELSE <<"<", "h", "2", " ", "i", "d", "=", "\"">> \o b.id
                                    \o <<"\"", ">">>)
                              \o b.text \o H2Close
      [] b.tag = "pre" -> <<"<", "p", "r", "e", ">", "<", "c", "o", "d", "e", ">">>
                              \o EscapeHtml(b.text)
                              \o <<"<", "/", "c", "o", "d", "e", ">", "<", "/", "p", "r", "e", ">">>
      [] b.tag = "p"   -> <<"<", "p", ">">> \o b.text \o <<"<", "/", "p", ">">>
      [] OTHER         -> b.text

\* html_chapter: the blocks in their order, one per line
RECURSIVE Html(_)
Html(blocks) ==
    IF blocks = <<>> THEN <<>>
    ELSE IF Len(blocks) = 1 THEN BlockHtml(blocks[1])
    ELSE BlockHtml(blocks[1]) \o <<"\n">> \o Html(Tail(blocks))

\* r'<h2>(.+?)</h2>' tried at position j: <h2>, at least one character,
\* then the first </h2>; the dot does not cross a newline
H2Match(html, j) ==
    LET closes == {k \in (j + 5)..Len(html) : StartsAt(html, k, H2Close)}
        k      == CHOOSE x \in closes : \A y \in closes : x <= y
    IN  IF /\ StartsAt(html, j, H2Open)
           /\ closes # {}
           /\ \A x \in (j + 4)..(k - 1) : html[x] # "\n"
        THEN [ok |-> TRUE, next |-> k + Len(H2Close), inner |-> SubSeq(html, j + 4, k - 1)]
        ELSE NoMatch

\* add_h2_id(match)
add_h2_id(c, h2_counter, m) ==
    <<"<", "h", "2", " ", "i", "d", "=", "\"">> \o h2_id(c, h2_counter) \o <<"\"", ">">>
        \o m.inner \o H2Close

\* re.sub(r'<h2>(.+?)</h2>', add_h2_id, html_chapter) from position i on:
\* every <h2> without attributes, wherever it stands, gets the id
\* chapter_id_h2_<h2_counter>, and the counter grows with each match
RECURSIVE AddH2Ids(_, _, _, _)
AddH2Ids(c, html, i, h2_counter) ==
    LET hits == {j \in i..Len(html) : H2Match(html, j).ok}
    IN  IF hits = {} THEN SubSeq(html, i, Len(html))
        ELSE LET j == CHOOSE x \in hits : \A y \in hits : x <= y
                 m == H2Match(html, j)
             IN  SubSeq(html, i, j - 1) \o add_h2_id(c, h2_counter, m)
                     \o AddH2Ids(c, html, m.next, h2_counter + 1)

\* the ids of the chapter divs of the combined document: one per chapter
\* of self.chapters
ChapterDivIds(chs) == {chapter_id(chs[k]) : k \in 1..Len(chs)}

\* the body of a chapter in the PDF: links rewritten, markdown converted,
\* ids added to the second-level headings
ChapterBody(c, ls) ==
    AddH2Ids(c, Html(MarkdownBlocks(SplitLines(pdf_content(JoinLines(ls))), 0)), 1, 0)

-----------------------------------------------------------------------------
(* The inputs: chapter directories and chapter texts                       *)

MaxSpans == 2   \* a chapter text is at most this many spans long

File(name, first_line) ==
    [name |-> name, readable |-> TRUE, first_line |-> first_line, body |-> <<>>]

Name_01_01_intro  == <<"0", "1", "_", "0", "1", "_", "i", "n", "t", "r", "o", ".", "m", "d">>
Name_02_01_osnovy == <<"0", "2", "_", "0", "1", "_", "o", "s", "n", "o", "v", "y", ".", "m", "d">>
Name_02_01_alt    == <<"0", "2", "_", "0", "1", "_", "a", "l", "t", ".", "m", "d">>
Name_02_12_seti   == <<"0", "2", "_", "1", "2", "_", "s", "e", "t", "i", ".", "m", "d">>
Name_notes        == <<"n", "o", "t", "e", "s", ".", "m", "d">>

Heading == <<"#", " ", "T">>

\* The directories the resolver is run against: one with distinct keys and
\* a file that is no chapter, one where two files share the key (02, 01)
\* and chapter 2.12 exists
CatalogDirs ==
    { {File(Name_01_01_intro, Heading), File(Name_02_01_osnovy, Heading),
       File(Name_notes, Heading)},
      {File(Name_02_01_alt, Heading), File(Name_02_01_osnovy, Heading),
       File(Name_02_12_seti, Heading)} }

Mention(word, sec, ch) == word \o <<" ">> \o sec \o <<".">> \o ch

glava == <<"g~", "l~", "a~", "v~", "a~">>
glave == <<"g~", "l~", "a~", "v~", "e~">>
glavy == <<"g~", "l~", "a~", "v~", "y~">>

LinkTarget == <<"0", "3", "_", "0", "1", "_", "f", "o", "o", ".", "m", "d">>

\* A mention as an author writes it: bold, bracketed, as the whole text of
\* a link, bold inside a link, inside the text of a longer link, and as
\* the target of a link
Bold(m)       == <<"*", "*">> \o m \o <<"*", "*">>
Bracket(m)    == <<"[">> \o m \o <<"]">>
Link(m, t)    == <<"[">> \o m \o <<"]", "(">> \o t \o <<")">>
InLinkText(m) == Link(<<"s", "m", " ">> \o m \o <<" ", "i">>, LinkTarget)
InTarget(m)   == Link(<<"s", "m">>, m)

Glava_2_1  == Mention(Glava, <<"2">>, <<"1">>)
Glava_9_9  == Mention(Glava, <<"9">>, <<"9">>)
Glava_2_12 == Mention(Glava, <<"2">>, <<"1", "2">>)

\* Chapter 2.1 in every dress and in the other case forms, the absent
\* chapter 9.9, and chapter 2.12, whose number starts with that of 2.1
MentionSpans ==
    { Glava_2_1, Bold(Glava_2_1), Bracket(Glava_2_1),
      Link(Glava_2_1, LinkTarget), Link(Bold(Glava_2_1), LinkTarget),
      InLinkText(Glava_2_1), InTarget(Glava_2_1), Link(Glava_2_1, Glava_2_1),
      Mention(glava, <<"2">>, <<"1">>), Mention(glave, <<"2">>, <<"1">>),
      Mention(glavy, <<"2">>, <<"1">>),
      Bold(Mention(glave, <<"2">>, <<"1">>)),
      Bracket(Mention(glavy, <<"2">>, <<"1">>)),
      Glava_9_9, Bold(Glava_9_9), Bracket(Glava_9_9),
      Glava_2_12, Bold(Glava_2_12) }

Atoms == { <<"*", "*">>, <<"[">>, <<"]">>, <<"(">>, <<"2">>, <<" ", "i", " ">> }

Spans == Atoms \cup MentionSpans

RECURSIVE Concat(_)
Concat(ss) == IF ss = <<>> THEN <<>> ELSE ss[1] \o Concat(Tail(ss))

Texts == {Concat(ss) : ss \in UNION {[1..n -> Spans] : n \in 0..MaxSpans}}

-----------------------------------------------------------------------------------------------------------------------------------------------------
(* The resolver as a state machine: a chapter text is read, and either     *)
(* the book export or the PDF composer rewrites it                         *)

HeadingsIdle ==
    /\ lines = <<>>
    /\ toc_subs = <<>>
    /\ body_html = <<>>
    /\ pdf_pass = FALSE

BuildIdle ==
    /\ spec_md = TRUE
    /\ dir_exists = TRUE
    /\ dir_files = {}
    /\ book_exists = FALSE
    /\ book_files = {}
    /\ written = {}
    /\ toc_structure = <<>>
    /\ pc = "idle"
    /\ build_result = "none"
    /\ exit_status = -1
    /\ log = <<>>

Init ==
    /\ chapters \in {parse_chapters(d) : d \in CatalogDirs}
    /\ source \in Texts
    /\ content = source
    /\ scheme = "none"
    /\ HeadingsIdle
    /\ BuildIdle

\* export_book_markdown, for one chapter: the text as read goes through
\* convert_chapter_links
ExportChapter ==
    /\ scheme = "none"
    /\ content' = convert_chapter_links(chapters, source)
    /\ scheme' = "book"
    /\ UNCHANGED <<chapters, source, heading_vars, build_vars>>

\* the book-scheme resolver run again on its own output
ResolveAgain ==
    /\ scheme = "book"
    /\ content' = convert_chapter_links(chapters, content)
    /\ scheme' = "book2"
    /\ UNCHANGED <<chapters, source, heading_vars, build_vars>>

\* generate_pdf, for one chapter: the text as read goes through the two
\* re.sub calls of the document scheme
PdfChapter ==
    /\ scheme = "none"
    /\ content' = pdf_content(source)
    /\ scheme' = "pdf"
    /\ UNCHANGED <<chapters, source, heading_vars, build_vars>>

Next == ExportChapter \/ ResolveAgain \/ PdfChapter

Spec == Init /\ [][Next]_vars

-----------------------------------------------------------------------------
(* The headings of one chapter in the PDF document                         *)

MaxLines == 3   \* a chapter file is at most this many lines long

\* Lines of a chapter file: two headings, a service heading (capitalised,
\* so that lower() matters), a fence, a line of text, a raw HTML heading,
\* and two lines with a mention that is already a link: one of chapter
\* 2.1, in bold, and one of the absent chapter 9.9
LineKinds ==
    { <<"#", "#", " ", "T", "e", "m", "a">>,
      <<"#", "#", " ", "D", "a", "n", "n", "y", "e">>,
      <<"#", "#", " ", "R", "e", "z", "u", "m", "e">>,
      Fence,
      <<"t", "e", "k", "s", "t">>,
      <<"<", "h", "2", ">", "T", "e", "m", "a", "<", "/", "h", "2", ">">>,
      Link(Bold(Glava_2_1), <<"x">>),
      Link(Glava_9_9, <<"x">>) }

ResolverIdle ==
    /\ source = <<>>
    /\ content = <<>>
    /\ scheme = "idle"

InitToc ==
    /\ chapters \in {parse_chapters(d) : d \in CatalogDirs}
    /\ lines \in UNION {[1..n -> LineKinds] : n \in 0..MaxLines}
    /\ toc_subs = <<>>
    /\ body_html = <<>>
    /\ pdf_pass = FALSE
    /\ ResolverIdle
    /\ BuildIdle

\* generate_pdf, for the first chapter of the catalog: the sub-entries of
\* the table of contents from the file as read, then the chapter body
PdfHeadings ==
    /\ ~pdf_pass
    /\ toc_subs' = TocSubEntries(chapters[1], H2Matches(lines), 0)
    /\ body_html' = ChapterBody(chapters[1], lines)
    /\ pdf_pass' = TRUE
    /\ UNCHANGED <<chapters, lines, resolver_vars, build_vars>>

NextToc == PdfHeadings

SpecToc == InitToc /\ [][NextToc]_vars

-----------------------------------------------------------------------------
(* main() and build(): the stages of one run                               *)
(*                                                                         *)
(* The artifacts at the repository root are recorded by name; the files of *)
(* book/ are recorded with what the export puts into them.  log is the     *)
(* trace of the run: the messages printed and the removal of book/.        *)

MaxFiles == 3   \* the chapters directory holds at most this many files

Name_03_01_zakryt == <<"0", "3", "_", "0", "1", "_", "z", "a", "k", "r", "y", "t", ".", "m", "d">>
Name_10_01_dop    == <<"1", "0", "_", "0", "1", "_", "d", "o", "p", ".", "m", "d">>

\* The files a chapters directory is filled from: chapters of two sections,
\* two files with the key (02, 01), a file that is no chapter, a chapter
\* that cannot be read, and a chapter of a section outside the table
\* The chapter texts mention other chapters in the plain, the bold and the
\* bracketed shape, a chapter that is absent, and chapter 2.12 before "]"
BuildFiles ==
    { [File(Name_01_01_intro, Heading) EXCEPT !.body = Glava_2_1],
      [File(Name_02_01_osnovy, Heading) EXCEPT
          !.body = Bold(Mention(Glava, <<"1">>, <<"1">>)) \o <<" ", "i", " ">> \o Glava_9_9],
      [File(Name_02_01_alt, Heading) EXCEPT
          !.body = Bracket(Mention(Glava, <<"1", "0">>, <<"1">>))],
      File(Name_notes, Heading),
      [File(Name_03_01_zakryt, Heading) EXCEPT !.readable = FALSE],
      [File(Name_10_01_dop, <<"t", "e", "k", "s", "t">>) EXCEPT
          !.body = Mention(glave, <<"1">>, <<"1">>) \o <<" ", "i", " ">>
                      \o Glava_2_12 \o <<"]">>] }

ReadmeName == <<"R", "E", "A", "D", "M", "E", ".", "m", "d">>

\* what book/ holds when it is left over from an earlier run
StaleBook ==
    { [name |-> <<"o", "l", "d", ".", "m", "d">>, kind |-> "stale",
       index |-> <<>>, content |-> <<>>, footer |-> <<>>] }

Events(lg) == {lg[k] : k \in 1..Len(lg)}

\* f.read() of a chapter file
FileText(f) == f.first_line \o <<"\n">> \o f.body

\* the file of the chapters directory that chapter['path'] names
FileOf(dir, c) == CHOOSE f \in dir : f.name = c.path

\* a target name built from the numbers without their leading zeros
target_filename_unpadded(c) ==
    IntStr(c.section_num) \o <<"_">> \o IntStr(c.chapter_num) \o <<"_">>
        \o c.slug \o <<".", "m", "d">>

\* f"{section_num}_{chapter_num}_{slug}.md"
target_filename(c) ==
    c.section_num \o <<"_">> \o c.chapter_num \o <<"_">> \o c.slug \o <<".", "m", "d">>

\* the table of contents of book/README.md: per section its number and
\* name, per chapter its number, title and link
book_readme(toc) ==
    [k \in 1..Len(toc) |->
        [section |-> IntStr(toc[k].section_num),
         name    |-> toc[k].name,
         entries |-> [j \in 1..Len(toc[k].chapters) |->
                        [num   |-> IntStr(toc[k].chapters[j].chapter_num),
                         title |-> toc[k].chapters[j].title,
                         link  |-> target_filename(toc[k].chapters[j])]]]]

\* an exported chapter: the navigation header, the text with its mentions
\* resolved, and the footer with the number and the title of the chapter
book_chapter(chs, c, f) ==
    [name    |-> target_filename(c),
     kind    |-> "chapter",
     index   |-> <<>>,
     content |-> convert_chapter_links(chs, FileText(f)),
     footer  |-> <<c.full_num, c.title>>]

\* open(path, 'w') and write: a file of that name is replaced
WriteFile(out, rec) == {x \in out : x.name # rec.name} \cup {rec}

\* the loop of export_book_markdown over self.chapters: open() of a file
\* that cannot be read raises and the loop is left with what was written
RECURSIVE ExportChapters(_, _, _, _)
ExportChapters(chs, rest, dir, out) ==
    IF rest = <<>> THEN [files |-> out, raised |-> FALSE]
    ELSE LET c == rest[1]
             f == FileOf(dir, c)
         IN  IF ~f.readable THEN [files |-> out, raised |-> TRUE]
             ELSE ExportChapters(chs, Tail(rest), dir,
                                 WriteFile(out, book_chapter(chs, c, f)))

\* parse_chapters without its check of the directory
NoDirCheck(exists) == FALSE

\* if not self.chapters_dir.exists()
DirNotFound(exists) == ~exists

InitBuild ==
    /\ spec_md \in BOOLEAN
    /\ dir_exists \in BOOLEAN
    /\ dir_files \in IF dir_exists
                     THEN {fs \in SUBSET BuildFiles : Cardinality(fs) <= MaxFiles}
                     ELSE {{}}
    /\ book_exists \in BOOLEAN
    /\ book_files = IF book_exists THEN StaleBook ELSE {}
    /\ written = {}
    /\ chapters = <<>>
    /\ toc_structure = <<>>
    /\ pc = "main"
    /\ build_result = "none"
    /\ exit_status = -1
    /\ log = <<>>
    /\ ResolverIdle
    /\ HeadingsIdle

\* the steps list of build(), in the order of the loop
Steps ==
    <<"parse_chapters", "generate_root_readme", "export_book_markdown",
      "setup_github_pages", "generate_pdf", "create_gitattributes">>

\* a build() whose loop does not look at what a stage returned: the stage
\* after the failed one is called (the last stage never fails)
StageFailureIgnored(stage, lg) ==
    /\ log' = lg
    /\ pc' = Steps[(CHOOSE k \in 1..(Len(Steps) - 1) : Steps[k] = stage) + 1]
    /\ UNCHANGED <<build_result, exit_status>>

\* build(): a stage returned False
StageFailed(stage, lg) ==
    /\ log' = lg \o <<"build: error at stage", stage>>
    /\ build_result' = "False"
    /\ exit_status' = 1
    /\ pc' = "exit"

\* build(): a stage returned True and the next one is called
StagePassed(next, lg) ==
    /\ log' = lg
    /\ pc' = next
    /\ UNCHANGED <<build_result, exit_status>>

\* an exception nobody catches leaves build() and main(): the interpreter
\* prints the traceback and exits with status 1
Raised(lg) ==
    /\ log' = lg \o <<"traceback">>
    /\ exit_status' = 1
    /\ pc' = "exit"
    /\ UNCHANGED build_result

\* main() up to the call of build()
Main ==
    /\ pc = "main"
    /\ IF ~spec_md
       THEN /\ log' = <<"error: run from the textbook folder">>
            /\ exit_status' = 1
            /\ pc' = "exit"
       ELSE /\ log' = <<"build">>
            /\ pc' = "parse_chapters"
            /\ UNCHANGED exit_status
    /\ UNCHANGED <<chapters, resolver_vars, heading_vars, spec_md, dir_exists,
                   dir_files, book_exists, book_files, written, toc_structure,
                   build_result>>

ParseChapters ==
    /\ pc = "parse_chapters"
    /\ IF DirNotFound(dir_exists)
       THEN /\ StageFailed("parse_chapters",
                           log \o <<"parse_chapters", "error: chapters dir not found">>)
            /\ UNCHANGED <<chapters, toc_structure>>
       ELSE /\ chapters' = parse_chapters(dir_files)
            /\ toc_structure' = TocOf(chapters', <<>>)
            /\ StagePassed("generate_root_readme",
                           log \o <<"parse_chapters", "parse_chapters: found">>)
    /\ UNCHANGED <<resolver_vars, heading_vars, spec_md, dir_exists, dir_files,
                   book_exists, book_files, written>>

GenerateRootReadme ==
    /\ pc = "generate_root_readme"
    /\ written' = written \cup {"README.md"}
    /\ StagePassed("export_book_markdown",
                   log \o <<"generate_root_readme", "generate_root_readme: created">>)
    /\ UNCHANGED <<chapters, resolver_vars, heading_vars, spec_md, dir_exists,
                   dir_files, book_exists, book_files, toc_structure>>

ExportBookMarkdown ==
    /\ pc = "export_book_markdown"
    /\ LET removed == IF book_exists THEN <<"rmtree book">> ELSE <<>>
           readme  == [name |-> ReadmeName, kind |-> "index",
                       index |-> book_readme(toc_structure),
                       content |-> <<>>, footer |-> <<>>]
           out     == ExportChapters(chapters, chapters, dir_files, {readme})
           lg      == log \o <<"export_book_markdown">> \o removed
       IN  /\ book_exists' = TRUE
           /\ book_files' = out.files
           /\ IF out.raised
              THEN Raised(lg)
              ELSE StagePassed("setup_github_pages",
                               lg \o <<"export_book_markdown: exported">>)
    /\ UNCHANGED <<chapters, resolver_vars, heading_vars, spec_md, dir_exists,
                   dir_files, written, toc_structure>>

SetupGithubPages ==
    /\ pc = "setup_github_pages"
    /\ written' = written \cup {"index.html", "_sidebar.md"}
    /\ StagePassed("generate_pdf",
                   log \o <<"setup_github_pages", "setup_github_pages: created">>)
    /\ UNCHANGED <<chapters, resolver_vars, heading_vars, spec_md, dir_exists,
                   dir_files, book_exists, book_files, toc_structure>>

\* generate_pdf: reading a chapter for the table of contents is guarded,
\* reading it for the body is not; write_pdf either writes the file or
\* raises, and its exception is caught and turned into False
GeneratePdf ==
    /\ pc = "generate_pdf"
    /\ IF \E k \in 1..Len(chapters) : ~FileOf(dir_files, chapters[k]).readable
       THEN /\ Raised(log \o <<"generate_pdf">>)
            /\ UNCHANGED written
       ELSE \E write_pdf_ok \in BOOLEAN :
                IF write_pdf_ok
                THEN /\ written' = written \cup {"uchebnik_informatika.pdf"}
                     /\ StagePassed("create_gitattributes",
                                    log \o <<"generate_pdf", "generate_pdf: created">>)
                ELSE /\ StageFailed("generate_pdf",
                                    log \o <<"generate_pdf", "error: pdf">>)
                     /\ UNCHANGED written
    /\ UNCHANGED <<chapters, resolver_vars, heading_vars, spec_md, dir_exists,
                   dir_files, book_exists, book_files, toc_structure>>

\* create_gitattributes, the last stage: build() returns True after it and
\* main() returns 0
CreateGitattributes ==
    /\ pc = "create_gitattributes"
    /\ written' = written \cup {".gitattributes"}
    /\ log' = log \o <<"create_gitattributes", "create_gitattributes: created",
                       "build: done">>
    /\ build_result' = "True"
    /\ exit_status' = 0
    /\ pc' = "exit"
    /\ UNCHANGED <<chapters, resolver_vars, heading_vars, spec_md, dir_exists,
                   dir_files, book_exists, book_files, toc_structure>>

NextBuild ==
    \/ Main
    \/ ParseChapters
    \/ GenerateRootReadme
    \/ ExportBookMarkdown
    \/ SetupGithubPages
    \/ GeneratePdf
    \/ CreateGitattributes

SpecBuild == InitBuild /\ [][NextBuild]_vars

\* C8 (as claimed): every sub-entry of the table of contents points at the
\* id injected on the body heading with the same title, the i-th
\* second-level heading having ordinal i in both passes.
C8_HeadingAnchorsAgree ==
    pdf_pass =>
        \A k \in 1..Len(toc_subs) :
            Contains(body_html,
                     <<"<", "h", "2", " ", "i", "d", "=", "\"">> \o toc_subs[k].href
                         \o <<"\"", ">">> \o toc_subs[k].title \o H2Close)

-----------------------------------------------------------------------------
(* What the claims speak of: mentions as they are written in a text        *)

Count(s, lit) == Cardinality({i \in 1..Len(s) : StartsAt(s, i, lit)})

\* the catalog entry a key (X, Y) names: the first chapter of the catalog
\* whose numbers are X and Y zero-padded to two digits, 0 when none is
Named(chs, sec, ch) ==
    LET hits == {k \in 1..Len(chs) :
                    chs[k].section_num = zfill(sec, 2) /\ chs[k].chapter_num = zfill(ch, 2)}
    IN  IF hits = {} THEN 0 ELSE CHOOSE k \in hits : \A j \in hits : k <= j

\* SS_CC_s.md for the key (X, Y) and the slug s
FileLink(sec, ch, slug) ==
    zfill(sec, 2) \o <<"_">> \o zfill(ch, 2) \o <<"_">> \o slug \o <<".", "m", "d">>

\* a written number pair X.Y at position i: both digit runs complete
Written(s, i) ==
    LET np == NumPair(s, i)
    IN  [ok |-> np.ok, sec |-> np.sec,
         ch |-> SubSeq(s, np.from, np.from + np.n2 - 1),
         next |-> np.from + np.n2]

CaseForms == {Glava, glava, glave, glavy}

\* **word X.Y** written at position i and not followed by "]"
BoldAt(s, i, word) ==
    LET w == Written(s, i + 8)
    IN  /\ StartsAt(s, i, <<"*", "*">> \o word \o <<" ">>)
        /\ w.ok
        /\ StartsAt(s, w.next, <<"*", "*">>)
        /\ ~CharIs(s, w.next + 2, "]")

\* [word X.Y] written at position i and not followed by "("
BracketAt(s, i, word) ==
    LET w == Written(s, i + 7)
    IN  /\ StartsAt(s, i, <<"[">> \o word \o <<" ">>)
        /\ w.ok
        /\ CharIs(s, w.next, "]")
        /\ ~CharIs(s, w.next + 1, "(")

\* word X.Y written at position i, whatever surrounds it
WordAt(s, i, word) == StartsAt(s, i, word \o <<" ">>) /\ Written(s, i + 6).ok

\* the bold mentions of a text, read from the left: a mention that starts
\* inside the previous one (sharing its closing **) is not one
RECURSIVE BoldMentions(_, _)
BoldMentions(s, i) ==
    IF i > Len(s) THEN {}
    ELSE IF BoldAt(s, i, Glava)
         THEN {i} \cup BoldMentions(s, Written(s, i + 8).next + 2)
         ELSE BoldMentions(s, i + 1)

\* [**Glava X.Y**](SS_CC_s.md)
BoldBookLink(sec, ch, slug) ==
    <<"[", "*", "*">> \o Mention(Glava, sec, ch) \o <<"*", "*", "]", "(">>
        \o FileLink(sec, ch, slug) \o <<")">>

\* C1: under the book scheme every unlinked bold mention **Glava X.Y** of a
\* chapter of the catalog is in the returned text as
\* [**Glava X.Y**](SS_CC_s.md), s the slug the catalog gives the key; rule 1
\* emits the link and rules 2 and 3 keep every copy of it.
C1_BoldMentionLinked ==
    scheme = "book" =>
        \A i \in BoldMentions(source, 1) :
            LET w == Written(source, i + 8)
                k == Named(chapters, w.sec, w.ch)
                l == BoldBookLink(w.sec, w.ch, chapters[k].slug)
            IN  k # 0 =>
                    /\ Contains(Rule1(chapters, source), l)
                    /\ Count(content, l) >= Count(Rule1(chapters, source), l)
                    /\ Contains(content, l)

C1_Witness ==
    /\ scheme = "book"
    /\ \E i \in BoldMentions(source, 1) :
           Named(chapters, Written(source, i + 8).sec, Written(source, i + 8).ch) # 0
    /\ Contains(content, BoldBookLink(<<"2">>, <<"1">>, <<"o", "s", "n", "o", "v", "y">>))

\* whether some mention written in the text names a chapter of the catalog
SomeMentionResolves(chs, s) ==
    \E i \in 1..Len(s), word \in CaseForms :
        /\ WordAt(s, i, word)
        /\ Named(chs, Written(s, i + 6).sec, Written(s, i + 6).ch) # 0

\* C2 (as claimed): under the book scheme a mention whose key is not in the
\* catalog is left as written, and a text none of whose mentions resolves
\* is returned character for character.
C2_UnresolvedUnchanged ==
    scheme = "book" =>
        /\ \A i \in 1..Len(source), word \in CaseForms :
               LET w == Written(source, i + 6)
                   m == SubSeq(source, i, w.next - 1)
               IN  (WordAt(source, i, word) /\ Named(chapters, w.sec, w.ch) = 0)
                       => Count(content, m) >= Count(source, m)
        /\ (~SomeMentionResolves(chapters, source) => content = source)

\* C3: the book-scheme resolver is idempotent: a second run returns the
\* output of the first, and no single rule changes that output either.
C3_Idempotent ==
    /\ scheme = "book2" => content = convert_chapter_links(chapters, source)
    /\ scheme = "book" =>
           \A rule \in 1..3 : ReSub(rule, chapters, content, 1) = content

C3_Witness ==
    /\ scheme = "book2"
    /\ convert_chapter_links(chapters, source) # source
    /\ content = convert_chapter_links(chapters, source)

\* the markdown links [text](target) of a text: for every "](" the nearest
\* "[" before it with no bracket in between and the first ")" after it,
\* the target not empty
MarkdownLinks(s) ==
    {l \in UNION {
        LET opens  == {i \in 1..(k - 1) :
                          /\ s[i] = "["
                          /\ \A j \in (i + 1)..(k - 1) : s[j] \notin {"[", "]"}}
            close  == FirstClose(s, k + 2)
        IN  IF opens # {} /\ close > k + 2
            THEN {SubSeq(s, CHOOSE i \in opens : TRUE, close)}
            ELSE {} : k \in {x \in 1..(Len(s) - 1) : s[x] = "]" /\ s[x + 1] = "("}} : TRUE}

\* C4 (as claimed): every markdown link of the input, and every link an
\* earlier rule produced, is in the output of the book-scheme resolver
\* unchanged, wherever in the link a chapter mention lies.
C4_NoDoubleLinking ==
    scheme = "book" =>
        LET r1 == Rule1(chapters, source)
            r2 == Rule2(chapters, r1)
        IN  \A l \in MarkdownLinks(source) \cup MarkdownLinks(r1) \cup MarkdownLinks(r2) :
                Contains(content, l)

\* [word X.Y](SS_CC_s.md)
BookLink(word, sec, ch, slug) ==
    <<"[">> \o Mention(word, sec, ch) \o <<"]", "(">> \o FileLink(sec, ch, slug) \o <<")">>

\* C5 (as claimed): the bold and the bracketed shape are recognised for
\* the other case forms of the word as they are for Glava: **glave X.Y**
\* becomes a bold link and [glavy X.Y] becomes a link.
C5_CaseVariantsAllShapes ==
    scheme = "book" =>
        \A i \in 1..Len(source), word \in CaseForms \ {Glava} :
            LET wb == Written(source, i + 8)
                kb == Named(chapters, wb.sec, wb.ch)
                wk == Written(source, i + 7)
                kk == Named(chapters, wk.sec, wk.ch)
            IN  /\ (BoldAt(source, i, word) /\ kb # 0) =>
                       \E as \in {word, Glava} :
                           Contains(content,
                               <<"[", "*", "*">> \o Mention(as, wb.sec, wb.ch)
                                   \o <<"*", "*", "]", "(">>
                                   \o FileLink(wb.sec, wb.ch, chapters[kb].slug) \o <<")">>)
                /\ (BracketAt(source, i, word) /\ kk # 0) =>
                       \E as \in {word, Glava} :
                           Contains(content,
                               BookLink(as, wk.sec, wk.ch, chapters[kk].slug))

\* C5 (amended): the plain shape is recognised for every case form: a
\* plain mention of a catalog chapter, not preceded by "[" or "*" and not
\* followed by "]", becomes a link that keeps the word as written.  The
\* bold and the bracketed shape are recognised for the word Glava only: a
\* text without that word whose mentions all directly follow "*" or "["
\* is returned unchanged.
C5_CaseVariantsPlainOnly ==
    scheme = "book" =>
        /\ \A i \in 1..Len(source), word \in CaseForms :
               LET w == Written(source, i + 6)
                   k == Named(chapters, w.sec, w.ch)
               IN  (/\ WordAt(source, i, word)
                    /\ ~CharIs(source, i - 1, "[") /\ ~CharIs(source, i - 1, "*")
                    /\ ~CharIs(source, w.next, "]")
                    /\ k # 0)
                       => Contains(content, BookLink(word, w.sec, w.ch, chapters[k].slug))
        /\ (/\ ~Contains(source, Glava)
            /\ \A i \in 1..Len(source), word \in CaseForms :
                   WordAt(source, i, word) =>
                       (CharIs(source, i - 1, "[") \/ CharIs(source, i - 1, "*")))
               => content = source

C5_Witness ==
    /\ scheme = "book"
    /\ source = Mention(glavy, <<"2">>, <<"1">>) \o Bold(Mention(glave, <<"2">>, <<"1">>))
    /\ Contains(content, BookLink(glavy, <<"2">>, <<"1">>, chapters[Named(chapters, <<"2">>, <<"1">>)].slug))
    /\ Contains(content, Bold(Mention(glave, <<"2">>, <<"1">>)))

Strong(t) ==
    <<"<", "s", "t", "r", "o", "n", "g", ">">> \o t \o <<"<", "/", "s", "t", "r", "o", "n", "g", ">">>

\* the in-document anchor chapter_SS_CC of the key (X, Y)
Anchor(sec, ch) ==
    <<"c", "h", "a", "p", "t", "e", "r", "_">> \o zfill(sec, 2) \o <<"_">> \o zfill(ch, 2)

\* C6 (as claimed): in the chapter text of the PDF document every unlinked
\* bold mention **Glava X.Y** of a catalog chapter has become a bold link to
\* the anchor #chapter_SS_CC, written as a markdown link or as an <a> element.
C6_PdfBoldMentionLinked ==
    scheme = "pdf" =>
        \A i \in BoldMentions(source, 1) :
            LET w == Written(source, i + 8)
                m == Mention(Glava, w.sec, w.ch)
            IN  Named(chapters, w.sec, w.ch) # 0 =>
                    \/ Contains(content,
                           <<"[", "*", "*">> \o m \o <<"*", "*", "]", "(", "#">>
                               \o Anchor(w.sec, w.ch) \o <<")">>)
                    \/ Contains(content,
                           AHref(Anchor(w.sec, w.ch)) \o Strong(m) \o AClose)

\* [Glava X.Y](t) or [**Glava X.Y**](t) written at position i, t not empty
\* and without ")": the position of its ")" and its number pair, or no match
LinkedAt(s, i, bold) ==
    LET open  == IF bold THEN <<"[", "*", "*">> ELSE <<"[">>
        shut  == IF bold THEN <<"*", "*", "]", "(">> ELSE <<"]", "(">>
        w     == Written(s, i + Len(open) + 6)
        close == FirstClose(s, w.next + Len(shut))
    IN  IF /\ StartsAt(s, i, open \o Glava \o <<" ">>)
           /\ w.ok
           /\ StartsAt(s, w.next, shut)
           /\ close > w.next + Len(shut)
        THEN [ok |-> TRUE, last |-> close, sec |-> w.sec, ch |-> w.ch]
        ELSE NoMatch

\* C7 (as claimed): the document scheme turns [Glava X.Y](t) and
\* [**Glava X.Y**](t) into the anchor link to #chapter_SS_CC with the same
\* (bold) text, dropping t; the book scheme returns both forms unchanged.
C7_LinkedMentions ==
    \A i \in 1..Len(source), bold \in BOOLEAN :
        LET l == LinkedAt(source, i, bold)
            m == Mention(Glava, l.sec, l.ch)
        IN  l.ok =>
                /\ scheme = "pdf" =>
                       Contains(content,
                           AHref(Anchor(l.sec, l.ch))
                               \o (IF bold THEN Strong(m) ELSE m) \o AClose)
                /\ scheme = "book" => Contains(content, SubSeq(source, i, l.last))


\* the value of a string of two digits
DigitValue(d) == CHOOSE n \in 0..9 : Str(n) = <<d>>
KeyOf(c) == <<DigitValue(c.section_num[1]) * 10 + DigitValue(c.section_num[2]),
              DigitValue(c.chapter_num[1]) * 10 + DigitValue(c.chapter_num[2])>>
KeyBefore(a, b) == a[1] < b[1] \/ (a[1] = b[1] /\ a[2] < b[2])

\* the chapters in the order in which the sections and then their
\* chapters are iterated
RECURSIVE Traversal(_)
Traversal(toc) ==
    IF toc = <<>> THEN <<>> ELSE toc[1].chapters \o Traversal(Tail(toc))

Parsed == "parse_chapters: found" \in Events(log)

\* C9 (as claimed): after parse_chapters every file named SS_CC_slug.md has
\* exactly one chapter with the key (SS, CC) in the catalog, the other
\* files have none, and going through the sections and their chapters
\* visits the keys in strictly ascending order.
C9_CatalogUniqueOrdered ==
    Parsed =>
        /\ \A f \in dir_files :
              LET m == NameMatch(f.name)
              IN  m.ok =>
                    Cardinality({k \in 1..Len(chapters) :
                                    /\ chapters[k].section_num = m.section_num
                                    /\ chapters[k].chapter_num = m.chapter_num}) = 1
        /\ \A k \in 1..Len(chapters) :
              \E f \in dir_files : NameMatch(f.name).ok /\ f.name = chapters[k].filename
        /\ LET order == Traversal(toc_structure)
           IN  \A k \in 1..(Len(order) - 1) :
                  KeyBefore(KeyOf(order[k]), KeyOf(order[k + 1]))

\* C10: when the chapters directory does not exist and build() runs,
\* parse_chapters reports the error and fails, no later stage runs, no
\* artifact is written, book/ is not removed, build() returns False and
\* the exit status is 1.
C10_MissingDirFailsFast ==
    (~dir_exists /\ "build" \in Events(log)) =>
        /\ Events(log) \subseteq {"build", "parse_chapters",
                                  "error: chapters dir not found",
                                  "build: error at stage"}
        /\ pc \in {"parse_chapters", "exit"}
        /\ chapters = <<>>
        /\ written = {}
        /\ book_files = (IF book_exists THEN StaleBook ELSE {})
        /\ pc = "exit" =>
              /\ "error: chapters dir not found" \in Events(log)
              /\ build_result = "False"
              /\ exit_status = 1

\* build() has run against a missing chapters directory while a book/ of
\* an earlier run was there, and the process has exited
C10_Witness ==
    /\ ~dir_exists
    /\ book_exists
    /\ pc = "exit"
    /\ "parse_chapters" \in Events(log)
    /\ exit_status = 1

\* the stages that render: everything build() calls after parse_chapters
RenderingStages ==
    {"generate_root_readme", "export_book_markdown", "setup_github_pages",
     "generate_pdf", "create_gitattributes"}

\* the chapters directory holds no file named NN_NN_slug.md
NoChapterFile == \A f \in dir_files : ~NameMatch(f.name).ok

\* C11 (as claimed): when the chapters directory exists and holds no file
\* matching NN_NN_slug.md, the build halts at once: no rendering stage
\* runs, no artifact is written, and the exit status is not 0.
C11_EmptyCatalogFails ==
    (dir_exists /\ NoChapterFile /\ "build" \in Events(log)) =>
        /\ Events(log) \cap RenderingStages = {}
        /\ written = {}
        /\ book_files = (IF book_exists THEN StaleBook ELSE {})
        /\ pc = "exit" => exit_status # 0

\* what a stage prints last when it succeeds
Done ==
    [parse_chapters       |-> "parse_chapters: found",
     generate_root_readme |-> "generate_root_readme: created",
     export_book_markdown |-> "export_book_markdown: exported",
     setup_github_pages   |-> "setup_github_pages: created",
     generate_pdf         |-> "generate_pdf: created",
     create_gitattributes |-> "create_gitattributes: created"]

StageFailure == "build: error at stage" \in Events(log)

\* the trace without the two entries build() adds for a failed stage
StageTrace == IF StageFailure THEN SubSeq(log, 1, Len(log) - 2) ELSE log

IsStage(e) == e \in {Steps[k] : k \in 1..Len(Steps)}

\* the stages that were started, in the order of their start
Started == SelectSeq(StageTrace, IsStage)

Pos(lg, e) == CHOOSE k \in 1..Len(lg) : lg[k] = e

\* C12: the stages start in the order of the steps list; a stage starts
\* only after the one before it has finished with success, so the catalog
\* is complete before a rendering stage starts; after a stage reported
\* failure nothing more runs and build() returns False; build() returns
\* True only when all six stages succeeded.
C12_StagesGatedInOrder ==
    /\ Len(Started) <= Len(Steps)
    /\ Started = SubSeq(Steps, 1, Len(Started))
    /\ \A k \in 2..Len(Started) :
          /\ Done[Steps[k - 1]] \in Events(log)
          /\ Pos(log, Done[Steps[k - 1]]) < Pos(log, Steps[k])
    /\ Events(log) \cap RenderingStages # {} =>
          /\ chapters = parse_chapters(dir_files)
          /\ toc_structure = TocOf(chapters, <<>>)
    /\ StageFailure =>
          /\ pc = "exit"
          /\ build_result = "False"
          /\ log[Len(log)] = Started[Len(Started)]
          /\ Done[Started[Len(Started)]] \notin Events(log)
    /\ build_result = "False" => StageFailure
    /\ build_result = "True" =>
          /\ pc = "exit"
          /\ \A k \in 1..Len(Steps) : Done[Steps[k]] \in Events(log)

\* write_pdf raised in a build of a non-empty catalog: generate_pdf
\* reported failure and build() returned False
C12_Witness ==
    /\ pc = "exit"
    /\ chapters # <<>>
    /\ "error: pdf" \in Events(log)
    /\ build_result = "False"
    /\ ".gitattributes" \notin written

\* C13 (as claimed): a chapter file that cannot be read is in the catalog
\* with the title made from its slug, and it makes no later stage of the
\* build raise or fail: the only failure left is that of the renderer.
C13_UnreadableChapterRecovered ==
    Parsed =>
        \A f \in dir_files :
            (NameMatch(f.name).ok /\ ~f.readable) =>
                /\ \E k \in 1..Len(chapters) :
                      /\ chapters[k].filename = f.name
                      /\ chapters[k].title = SlugTitle(NameMatch(f.name).slug)
                /\ "traceback" \notin Events(log)
                /\ StageFailure => "error: pdf" \in Events(log)

\* a link the book-scheme resolver writes, at position i of an exported
\* text: [word X.Y](target) or [**Glava X.Y**](target)
ResolverLinkAt(s, i) ==
    LET plain == Written(s, i + 7)
        bold  == Written(s, i + 9)
    IN  IF /\ CharIs(s, i, "[")
           /\ \E word \in CaseForms : WordAt(s, i + 1, word)
           /\ StartsAt(s, plain.next, <<"]", "(">>)
        THEN [ok |-> TRUE, sec |-> plain.sec, ch |-> plain.ch,
              target |-> SubSeq(s, plain.next + 2, FirstClose(s, plain.next + 2) - 1)]
        ELSE IF /\ StartsAt(s, i, <<"[", "*", "*">> \o Glava \o <<" ">>)
                /\ bold.ok
                /\ StartsAt(s, bold.next, <<"*", "*", "]", "(">>)
        THEN [ok |-> TRUE, sec |-> bold.sec, ch |-> bold.ch,
              target |-> SubSeq(s, bold.next + 4, FirstClose(s, bold.next + 4) - 1)]
        ELSE [ok |-> FALSE]

\* the file named t of book/ is the export of chapter c, and t parses back
\* to the key of c
ExportOf(t, c) ==
    /\ \E b \in book_files :
          /\ b.name = t
          /\ b = book_chapter(chapters, c, FileOf(dir_files, c))
    /\ NameMatch(t).ok
    /\ NameMatch(t).section_num = c.section_num
    /\ NameMatch(t).chapter_num = c.chapter_num

Exported == "export_book_markdown: exported" \in Events(log)

\* C14: after a successful export every link the resolver wrote into an
\* exported chapter, and every chapter link of the book index, names a
\* file of book/ written by this export; the file is the export of the
\* chapter the link stands for and its name parses back to that
\* chapter's key.
C14_BookLinksWork ==
    Exported =>
        /\ \A b \in book_files :
              /\ b.kind # "stale"
              /\ \A i \in 1..Len(b.content) :
                    LET l == ResolverLinkAt(b.content, i)
                    IN  l.ok =>
                          LET k == find_target_chapter(chapters, l.sec, l.ch)
                          IN  /\ k # 0
                              /\ l.target = link_url(chapters[k])
                              /\ ExportOf(l.target, chapters[k])
              /\ \A k \in 1..Len(b.index) :
                    \A j \in 1..Len(b.index[k].entries) :
                        ExportOf(b.index[k].entries[j].link,
                                 toc_structure[k].chapters[j])
        /\ \A k \in 1..Len(chapters) : ExportOf(target_filename(chapters[k]), chapters[k])

\* an export that wrote a chapter with a resolved link in it, into a
\* book/ left from an earlier run
C14_Witness ==
    /\ Exported
    /\ "rmtree book" \in Events(log)
    /\ \E b \in book_files :
          \E i \in 1..Len(b.content) : ResolverLinkAt(b.content, i).ok
    /\ \E b \in book_files : b.index # <<>>

\* the positions at which re.sub finds rule 3 in a text, read from the left
RECURSIVE PlainMatches(_, _)
PlainMatches(s, i) ==
    IF i > Len(s) THEN {}
    ELSE IF PlainMatch(s, i).ok
         THEN {i} \cup PlainMatches(s, PlainMatch(s, i).next)
         ELSE PlainMatches(s, i + 1)

\* C15 (as claimed): when the book-scheme resolver links a mention, the
\* numbers it looks up are the complete digit runs written in the text;
\* it never links a proper prefix of the chapter number.  Rules 1 and 2
\* close the number with ** and ], so the claim is about rule 3, which
\* works on the text rules 1 and 2 return.
C15_WholeNumberLinked ==
    scheme = "book" =>
        LET r2 == Rule2(chapters, Rule1(chapters, source))
        IN  \A i \in PlainMatches(r2, 1) :
                LET m == PlainMatch(r2, i)
                    w == Written(r2, i + 6)
                IN  find_target_chapter(chapters, m.sec, m.ch) # 0 =>
                        /\ m.sec = w.sec
                        /\ m.ch = w.ch

HrefOpen == <<"<", "a", " ", "h", "r", "e", "f", "=", "\"", "#">>

\* the anchor an <a href="#..."> at position i of a text points at
HrefId(s, i) ==
    LET from == i + Len(HrefOpen)
        e    == CHOOSE x \in from..Len(s) :
                    s[x] = "\"" /\ \A y \in from..(x - 1) : s[y] # "\""
    IN  SubSeq(s, from, e - 1)

\* a line that is one pre-linked mention [Glava X.Y](t) or
\* [**Glava X.Y**](t) of a chapter the catalog does not have
DanglingLinkLine(chs, l) ==
    \E m \in {PdfLinkMatch(l, 1), PdfBoldLinkMatch(l, 1)} :
        /\ m.ok
        /\ m.next = Len(l) + 1
        /\ Named(chs, m.sec, m.ch) = 0

\* C16 (as claimed): every href #chapter_SS_CC the document scheme writes
\* into a chapter body is the id of a chapter div of the document, and a
\* pre-linked mention of a chapter that is not in the catalog is in the
\* body as it was written.
C16_NoDanglingAnchors ==
    pdf_pass =>
        /\ \A i \in 1..Len(body_html) :
              StartsAt(body_html, i, HrefOpen) =>
                  HrefId(body_html, i) \in ChapterDivIds(chapters)
        /\ \A k \in 1..Len(lines) :
              DanglingLinkLine(chapters, lines[k]) =>
                  Contains(body_html, lines[k])

=============================================================================
